---- MODULE Spec2Model ----
(***************************************************************************)
(* Model of the voice2json evaluation pipeline (dodo.py, a doit file).     *)
(*                                                                         *)
(* dodo.py only DECLARES tasks (name, file_dep, targets, actions,          *)
(* create_after); the doit runner it is written for orders and skips them. *)
(* The task graph below is translated from the task dictionaries; the      *)
(* runner's rules are the ones those dictionaries rely on, with doit's     *)
(* defaults, since DOIT_CONFIG (dodo.py:14) overrides none of them:        *)
(*   - a task waits for the tasks producing its file_dep, and for the      *)
(*     task group named by create_after(executed=...);                     *)
(*   - a task with no file_dep is never up to date;                        *)
(*   - a file_dep counts as modified when its content signature changed    *)
(*     (timestamp first, then MD5), not when only its mtime changed;       *)
(*   - unless --continue is given, the run stops at the first failure.     *)
(* Which ready task a free process takes next is left open.               *)
(***************************************************************************)
EXTENDS Integers, Sequences, FiniteSets, TLC

VARIABLES
    profs,      \* _PROFILES: the discovered (dataset, profile) descriptors
    phase,      \* idle (before the run), running, done
    cont,       \* whether the run was started with --continue: yes or no once
                \* the runner has looked at it (at the first failure), unread before
    stop,       \* the runner stopped dispatching after a failure
    status,     \* per task: pending/running/succeeded/failed/unmet/uptodate
    exists,     \* files present on disk
    saved,      \* tasks with a successful-run record in doit's database
    newer,      \* <<task, file>>: file's mtime differs from the saved one
    dirty,      \* <<task, file>>: file's content differs from the saved one
    change,     \* the filesystem change made between the runs, if any
    \* iter_profiles
    dsEntries,  \* the entries datasets/<dataset>/profiles/<name>: dir or file
    dsProfiles, \* list(iter_profiles())
    dsDone,     \* iter_profiles has been exhausted
    \* a sharded action: cat list | parallel -k --pipe -n JOBS command
    shStage,    \* transcribe or recognize
    shLines,    \* the lines piped into parallel
    shOrder,    \* the chunk numbers, in the order their workers finished
    shOut,      \* what parallel has written to the target so far
    \* make_summary
    smProfiles, \* _PROFILES with what make_summary reads for each of them
    smI,        \* position of the loop over _PROFILES
    smRows,     \* the rows written to summary.csv so far
    smState,    \* start, loop, done, or raised
    smError,    \* the exception that ended make_summary, if any
    \* maybe_user_bin
    binExists,  \* in_profile_dir/bin/command_name is a file
    binName,    \* command_name
    binArgs,    \* args
    binCommand, \* the returned command line
    binDone,    \* maybe_user_bin has returned
    \* report-to-html.py
    rpActual,   \* the values of report["actual"], in the order of the file
    rpRows,     \* the positions in rpActual of the table's rows, top to bottom
    rpDone      \* the table has been written

schedVars == <<profs, phase, cont, stop, status, exists, saved, newer, dirty, change>>
discVars == <<dsEntries, dsProfiles, dsDone>>
shardVars == <<shStage, shLines, shOrder, shOut>>
sumVars == <<smProfiles, smI, smRows, smState, smError>>
binVars == <<binExists, binName, binArgs, binCommand, binDone>>
reportVars == <<rpActual, rpRows, rpDone>>
vars == <<schedVars, discVars, shardVars, sumVars, binVars, reportVars>>

\* the values of the variables a specification does not use
ReportIdle == rpActual = <<>> /\ rpRows = <<>> /\ rpDone = FALSE
DiscIdle == dsEntries = {} /\ dsProfiles = {} /\ dsDone = FALSE
ShardIdle == shStage = "" /\ shLines = <<>> /\ shOrder = <<>> /\ shOut = <<>>
SumIdle ==
    smProfiles = <<>> /\ smI = 0 /\ smRows = <<>> /\ smState = "" /\ smError = ""
BinIdle ==
    binExists = FALSE /\ binName = "" /\ binArgs = <<>> /\ binCommand = ""
        /\ binDone = FALSE
SchedIdle ==
    /\ profs = {}
    /\ phase = ""
    /\ cont = ""
    /\ stop = FALSE
    /\ status = <<>>
    /\ exists = {}
    /\ saved = {}
    /\ newer = {}
    /\ dirty = {}
    /\ change = <<>>

----------------------------------------------------------------------------
(* Bounds *)

MaxProfiles == 2
MaxRerunProfiles == 1
NumProcess == 2
MaxFailures == 1
MaxLines == 25
MaxArgs == 3
MaxSummaryProfiles == 2
MaxExamples == 2

----------------------------------------------------------------------------
(* ProfileDiscovery: iter_profiles, dodo.py:52-79 *)

\* the profile directories of the runs that are modelled (no two of them
\* share a profile name)
ProfileDirs == { <<"d1", "a">>, <<"d1", "b">> }

\* path / name
Sub(dir, name) == Append(dir, name)

\* the fields of DatasetProfile, for the descriptor p = <<dataset, profile>>
dataset_dir(p) == <<"datasets", p[1]>>

in_profile_dir(p) == <<"datasets", p[1], "profiles", p[2]>>

out_profile_dir(p) == <<"profiles", p[1], p[2]>>

profile_results_dir(p) == <<"results", p[2]>>

\* one descriptor <<dataset, profile>> per entry of a profiles directory
\* that is a directory; files are skipped
iter_profiles(entries) == { <<e[1], e[2]>> : e \in { x \in entries : x[3] = "dir" } }

----------------------------------------------------------------------------
(* TaskGraphBuilder: the task dictionaries of dodo.py *)

Stages == {"download", "copy", "train", "wav_list", "transcribe",
           "recognize", "report_json", "report_html"}

\* f"{p.dataset}_{p.profile}_{stage}"
T(p, stage) == <<p[1], p[2], stage>>

summary_csv_task == <<"", "", "summary_csv">>

TasksOf(ps) == { T(p, s) : p \in ps, s \in Stages } \cup {summary_csv_task}

ProfileOf(t) == <<t[1], t[2]>>

StageOf(t) == t[3]

\* get_user_files: sentences.ini, plus the optional slots, slot_programs,
\* converters and custom_words.txt, which the modelled profiles do not have
get_user_files(dir) == { Sub(dir, "sentences.ini") }

\* mutant: the summary does not list the reports among its file_dep
summary_file_dep_NoReport(ps) ==
    UNION { { Sub(out_profile_dir(p), "sentences.ini"),
              Sub(profile_results_dir(p), "train-profile.txt") } : p \in ps }

summary_file_dep(ps) ==
    UNION { { Sub(out_profile_dir(p), "sentences.ini"),
              Sub(profile_results_dir(p), "train-profile.txt"),
              Sub(profile_results_dir(p), "report.json") } : p \in ps }

FileDepOf(p, stage) ==
    CASE stage = "download"    -> {}
      [] stage = "copy"        -> { Sub(in_profile_dir(p), "sentences.ini") }
      [] stage = "train"       -> get_user_files(out_profile_dir(p))
      [] stage = "wav_list"    -> { Sub(dataset_dir(p), "truth.jsonl") }
      [] stage = "transcribe"  -> get_user_files(out_profile_dir(p))
      [] stage = "recognize"   -> { Sub(profile_results_dir(p), "transcriptions.jsonl") }
      [] stage = "report_json" -> { Sub(dataset_dir(p), "truth.jsonl"),
                                    Sub(profile_results_dir(p), "intents.jsonl") }
      [] stage = "report_html" -> { Sub(profile_results_dir(p), "report.json") }

TargetsOf(p, stage) ==
    CASE stage = "download"    -> { Sub(out_profile_dir(p), "print-downloads.txt") }
      [] stage = "copy"        -> {}
      [] stage = "train"       -> { Sub(out_profile_dir(p), "intent.pickle.gz"),
                                    Sub(profile_results_dir(p), "train-profile.txt") }
      [] stage = "wav_list"    -> { Sub(out_profile_dir(p), "wavs.txt") }
      [] stage = "transcribe"  -> { Sub(profile_results_dir(p), "transcriptions.jsonl") }
      [] stage = "recognize"   -> { Sub(profile_results_dir(p), "intents.jsonl") }
      [] stage = "report_json" -> { Sub(profile_results_dir(p), "report.json") }
      [] stage = "report_html" -> { Sub(profile_results_dir(p), "report.html") }

summary_csv == <<"results", "summary.csv">>

FileDep(ps, t) ==
    IF t = summary_csv_task THEN summary_file_dep(ps)
    ELSE FileDepOf(ProfileOf(t), StageOf(t))

Targets(t) ==
    IF t = summary_csv_task THEN {summary_csv}
    ELSE TargetsOf(ProfileOf(t), StageOf(t))

\* mutant: the generators are not decorated with create_after
CreateAfter_Undecorated(ps, t) == {}

\* @create_after(executed="download_profiles") on task_copy_profiles and
\* @create_after(executed="copy_profiles") on task_train_profiles: the tasks
\* of the decorated generator exist only once every task of the named group
\* has been executed
CreateAfter(ps, t) ==
    CASE StageOf(t) = "copy"  -> { T(p, "download") : p \in ps }
      [] StageOf(t) = "train" -> { T(p, "copy") : p \in ps }
      [] OTHER                -> {}

\* what the action of a task writes: its targets (shell redirection), or,
\* for copy, the rsync mirror of the input directory in the output directory
Writes(t) ==
    IF StageOf(t) = "copy"
    THEN { Sub(out_profile_dir(ProfileOf(t)), "sentences.ini") }
    ELSE Targets(t)

\* the output paths the nodes of one profile declare
OutputPaths(p) == UNION { TargetsOf(p, s) : s \in Stages }

----------------------------------------------------------------------------
(* The doit runner *)

\* a task depends on the tasks that produce one of its file_dep
ImplicitDeps(ps, t) ==
    { u \in TasksOf(ps) \ {t} : Targets(u) \cap FileDep(ps, t) # {} }

\* the task graph of every profile set, built once when the tasks are loaded
\* (the comparison makes TLC tabulate the function once)
Graph ==
    LET g == [ps \in SUBSET ProfileDirs |->
                [t \in TasksOf(ps) |->
                    [file_dep |-> FileDep(ps, t),
                     targets  |-> Targets(t),
                     writes   |-> Writes(t),
                     deps     |-> ImplicitDeps(ps, t) \cup CreateAfter(ps, t)]]]
    IN IF g = g THEN g ELSE g

Tasks == DOMAIN Graph[profs]

Node(t) == Graph[profs][t]

Deps(t) == Node(t).deps

Consumers(f) == { t \in Tasks : f \in Node(t).file_dep }

Terminal == {"succeeded", "failed", "unmet", "uptodate"}
Failed == {"failed", "unmet"}

\* MD5Checker: same timestamp means unmodified, otherwise compare content
check_modified(t, f) == <<t, f>> \in newer /\ <<t, f>> \in dirty

\* dependency status of a task
UpToDate(t) ==
    /\ Node(t).file_dep # {}
    /\ Node(t).targets \subseteq exists
    /\ t \in saved
    /\ \A f \in Node(t).file_dep : ~check_modified(t, f)

Running == { t \in Tasks : status[t] = "running" }

SourceFiles ==
    UNION { { Sub(in_profile_dir(p), "sentences.ini"),
              Sub(dataset_dir(p), "truth.jsonl") } : p \in profs }

NoChange == [file |-> <<>>, kind |-> "none"]

Trees(max) ==
    { { <<p[1], p[2], "dir">> : p \in x } :
        x \in { y \in SUBSET ProfileDirs : Cardinality(y) \in 1..max } }

\* a fresh checkout: only the datasets exist, doit has no database
SchedInit ==
    /\ profs \in { iter_profiles(tree) : tree \in Trees(MaxProfiles) }
    /\ phase = "idle"
    /\ cont = "unread"
    /\ stop = FALSE
    /\ status = [t \in Tasks |-> "pending"]
    /\ exists = SourceFiles
    /\ saved = {}
    /\ newer = {}
    /\ dirty = {}
    /\ change = NoChange
    /\ DiscIdle /\ ShardIdle /\ SumIdle /\ BinIdle /\ ReportIdle

\* `doit` or `doit --continue`
BeginRun ==
    /\ phase = "idle"
    /\ phase' = "running"
    /\ UNCHANGED <<profs, cont, stop, status, exists, saved, newer, dirty, change>>
    /\ UNCHANGED <<discVars, shardVars, sumVars, binVars, reportVars>>

\* before a re-run: touch (mtime only) or edit (content) one source file
ChangeFile(f, kind) ==
    /\ phase = "idle"
    /\ change = NoChange
    /\ f \in SourceFiles
    /\ change' = [file |-> f, kind |-> kind]
    /\ newer' = newer \cup { <<t, f>> : t \in Consumers(f) \cap saved }
    /\ dirty' = IF kind = "edit"
                THEN dirty \cup { <<t, f>> : t \in Consumers(f) \cap saved }
                ELSE dirty
    /\ UNCHANGED <<profs, phase, cont, stop, status, exists, saved>>
    /\ UNCHANGED <<discVars, shardVars, sumVars, binVars, reportVars>>

\* the command line's --continue flag, c, is what the runner finds when a
\* task fails; it is the same at every failure of a run
ReadContinue(c) == cont = "unread" \/ cont = c

\* what the runner decides for a task whose dependencies are all done:
\* unmet dependency, missing file_dep, up to date, or execute
Decision(t) ==
    IF \E u \in Deps(t) : status[u] \in Failed THEN "unmet"
    ELSE IF ~(Node(t).file_dep \subseteq exists) THEN "failed"
    ELSE IF UpToDate(t) THEN "uptodate"
    ELSE "running"

Ready(t) ==
    /\ phase = "running"
    /\ ~stop
    /\ status[t] = "pending"
    /\ Cardinality(Running) < NumProcess
    /\ \A u \in Deps(t) : status[u] \in Terminal

\* the runner takes a ready task and skips it as up to date or executes it
Dispatch(t) ==
    /\ Ready(t)
    /\ Decision(t) \notin Failed
    /\ status' = [status EXCEPT ![t] = Decision(t)]
    /\ UNCHANGED <<profs, phase, cont, stop, exists, saved, newer, dirty, change>>
    /\ UNCHANGED <<discVars, shardVars, sumVars, binVars, reportVars>>

\* the runner takes a ready task and fails it without executing it
Refuse(t, c) ==
    /\ Ready(t)
    /\ Decision(t) \in Failed
    /\ ReadContinue(c)
    /\ status' = [status EXCEPT ![t] = Decision(t)]
    /\ cont' = c
    /\ stop' = (c = "no")
    /\ saved' = IF Decision(t) = "failed" THEN saved \ {t} ELSE saved
    /\ UNCHANGED <<profs, phase, exists, newer, dirty, change>>
    /\ UNCHANGED <<discVars, shardVars, sumVars, binVars, reportVars>>

\* the files an executed action has written, and the saved signatures they
\* outdate; changed tells whether the content differs from what was there
Written(t, ok) == IF StageOf(t) = "copy" /\ ~ok THEN {} ELSE Node(t).writes

Outdated(t, ok, sv) == { <<c, f>> \in sv \X Written(t, ok) : c \in Consumers(f) }

\* the action's process exits with status 0
Finish(t, changed) ==
    /\ phase = "running"
    /\ status[t] = "running"
    /\ status' = [status EXCEPT ![t] = "succeeded"]
    /\ saved' = saved \cup {t}
    /\ exists' = exists \cup Written(t, TRUE)
    /\ LET hit == Outdated(t, TRUE, saved')
           mine == { <<t, f>> : f \in Node(t).file_dep }
       IN /\ newer' = (newer \cup hit) \ mine
          /\ dirty' = (IF changed THEN dirty \cup hit ELSE dirty) \ mine
    /\ UNCHANGED <<profs, phase, cont, stop, change>>
    /\ UNCHANGED <<discVars, shardVars, sumVars, binVars, reportVars>>

\* the action's process exits with another status
Fail(t, changed, c) ==
    /\ phase = "running"
    /\ status[t] = "running"
    /\ Cardinality({ u \in Tasks : status[u] = "failed" }) < MaxFailures
    /\ ReadContinue(c)
    /\ status' = [status EXCEPT ![t] = "failed"]
    /\ cont' = c
    /\ stop' = (stop \/ c = "no")
    /\ saved' = saved \ {t}
    /\ exists' = exists \cup Written(t, FALSE)
    /\ LET hit == Outdated(t, FALSE, saved')
       IN /\ newer' = newer \cup hit
          /\ dirty' = IF changed THEN dirty \cup hit ELSE dirty
    /\ UNCHANGED <<profs, phase, change>>
    /\ UNCHANGED <<discVars, shardVars, sumVars, binVars, reportVars>>

\* the run ends when nothing is executing and nothing more will be dispatched
EndRun ==
    /\ phase = "running"
    /\ Running = {}
    /\ stop \/ \A t \in Tasks : status[t] \in Terminal
    /\ phase' = "done"
    /\ UNCHANGED <<profs, cont, stop, status, exists, saved, newer, dirty, change>>
    /\ UNCHANGED <<discVars, shardVars, sumVars, binVars, reportVars>>

SchedNext ==
    \/ BeginRun
    \/ \E t \in Tasks : Dispatch(t)
    \/ \E t \in Tasks, c \in {"yes", "no"} : Refuse(t, c)
    \/ \E t \in Tasks, changed \in BOOLEAN : Finish(t, changed)
    \/ \E t \in Tasks, changed \in BOOLEAN, c \in {"yes", "no"} : Fail(t, changed, c)
    \/ EndRun

SpecSched == SchedInit /\ [][SchedNext]_vars

----------------------------------------------------------------------------
(* A second run, started from the state a fully successful run leaves *)

AllWritten == UNION { Node(t).writes : t \in Tasks }

RerunInit ==
    /\ profs \in { iter_profiles(tree) : tree \in Trees(MaxRerunProfiles) }
    /\ phase = "idle"
    /\ cont = "unread"
    /\ stop = FALSE
    /\ status = [t \in Tasks |-> "pending"]
    /\ exists = SourceFiles \cup AllWritten
    /\ saved = Tasks
    /\ newer = {}
    /\ dirty = {}
    /\ change = NoChange
    /\ DiscIdle /\ ShardIdle /\ SumIdle /\ BinIdle /\ ReportIdle

RerunNext ==
    \/ \E f \in SourceFiles, k \in {"touch", "edit"} : ChangeFile(f, k)
    \/ BeginRun
    \/ \E t \in Tasks : Dispatch(t)
    \/ \E t \in Tasks, c \in {"yes", "no"} : Refuse(t, c)
    \/ \E t \in Tasks, changed \in BOOLEAN : Finish(t, changed)
    \/ \E t \in Tasks, changed \in BOOLEAN, c \in {"yes", "no"} : Fail(t, changed, c)
    \/ EndRun

SpecRerun == RerunInit /\ [][RerunNext]_vars

----------------------------------------------------------------------------
(* Properties of the task graph and of a run *)

\* the tasks that transitively depend on one of the tasks of S, S included
RECURSIVE Closure(_)
Closure(S) ==
    LET n == S \cup { u \in Tasks : Deps(u) \cap S # {} }
    IN IF n = S THEN S ELSE Closure(n)

TransDependents(t) == Closure({t}) \ {t}

Executed(t) == status[t] \in {"succeeded", "failed"}

\* a first run in which every task succeeded leaves exactly the state
\* SpecRerun starts from
FirstRunLeavesRerunInit ==
    (phase = "done" /\ \A t \in Tasks : status[t] = "succeeded")
        => /\ exists = SourceFiles \cup AllWritten
           /\ saved = Tasks
           /\ newer = {}
           /\ dirty = {}

FirstRunAllSucceeded ==
    phase = "done" /\ \A t \in Tasks : status[t] = "succeeded"

\* C1: for every profile, transcribe is never running unless the wav-list
\* task and the train task of that profile have both reached a terminal state
C1_TranscribeAfterWavListAndTrain ==
    \A p \in profs :
        status[T(p, "transcribe")] = "running"
            => /\ status[T(p, "wav_list")] \in Terminal
               /\ status[T(p, "train")] \in Terminal

\* C2: when the run is over, every transitive dependent of a task whose
\* action failed has ended failed without having run, and every other task
\* has reached a terminal state
C2_FailFastPerBranch ==
    phase = "done" =>
        \A t \in Tasks :
            status[t] = "failed" =>
                /\ \A d \in TransDependents(t) : status[d] = "unmet"
                /\ \A u \in Tasks \ Closure({t}) : status[u] \in Terminal

\* with --continue the statement of C2 holds
FailFastPerBranchWithContinue == (cont = "yes") => C2_FailFastPerBranch

\* C3: a re-run with no filesystem change after a fully successful run
\* executes nothing: every task ends as up to date
C3_RerunExecutesNothing ==
    (/\ phase = "done"
     /\ change = NoChange
     /\ \A t \in Tasks : status[t] \in {"succeeded", "uptodate"})
        => \A t \in Tasks : status[t] = "uptodate"

\* C4: after touching one input file of task N, a re-run in which nothing
\* fails executes exactly N and the transitive dependents of N
C4_TouchRerunsExactlyDependents ==
    (/\ phase = "done"
     /\ change.kind = "touch"
     /\ \A t \in Tasks : status[t] \in {"succeeded", "uptodate"})
        => \A n \in Consumers(change.file) :
              \A t \in Tasks : Executed(t) <=> t \in Closure({n})

C13_CopyAfterDownloadTrainAfterCopy ==
    \A p \in profs :
        /\ status[T(p, "copy")] = "running"
              => status[T(p, "download")] \in Terminal
        /\ status[T(p, "train")] = "running"
              => status[T(p, "copy")] \in Terminal
        /\ Node(T(p, "copy")).targets \cap Node(T(p, "train")).file_dep = {}

C13_Witness ==
    /\ Cardinality(profs) = 2
    /\ \E p \in profs :
          /\ status[T(p, "train")] = "running"
          /\ status[T(p, "copy")] = "succeeded"
          /\ status[T(p, "download")] = "succeeded"

----------------------------------------------------------------------------
(* _PROFILES = list(iter_profiles()) *)

DiscoverDirs == { <<"d1", "a">>, <<"d1", "b">>, <<"d2", "a">>, <<"d2", "b">> }

\* each entry is absent, a directory or a file
DiscoverTrees ==
    { { <<d[1], d[2], k[d]>> : d \in { x \in DiscoverDirs : k[x] # "absent" } } :
        k \in [DiscoverDirs -> {"absent", "dir", "file"}] }

DiscoverInit ==
    /\ dsEntries \in DiscoverTrees
    /\ dsProfiles = {}
    /\ dsDone = FALSE
    /\ SchedIdle /\ ShardIdle /\ SumIdle /\ BinIdle /\ ReportIdle

Discover ==
    /\ ~dsDone
    /\ dsProfiles' = iter_profiles(dsEntries)
    /\ dsDone' = TRUE
    /\ UNCHANGED dsEntries
    /\ UNCHANGED <<schedVars, shardVars, sumVars, binVars, reportVars>>

DiscoverNext == Discover

SpecDiscover == DiscoverInit /\ [][DiscoverNext]_vars

\* C9: no two distinct discovered descriptors declare a common output path
C9_OutputPathsDisjoint ==
    dsDone =>
        \A p, q \in dsProfiles : p # q => OutputPaths(p) \cap OutputPaths(q) = {}

----------------------------------------------------------------------------
(* Sharded actions: cat list | parallel -k --pipe -n JOBS command > target *)

\* Number of parallel jobs to run during transcription/recognition
JOBS == 10

Min(a, b) == IF a <= b THEN a ELSE b

\* the external command (transcribe-wav --stdin-files, recognize-intent):
\* one JSON record on stdout per line read from stdin
Worker(stage, lines) == [i \in 1..Len(lines) |-> <<stage, lines[i]>>]

\* --pipe -n JOBS: contiguous blocks of JOBS lines, one worker per block
NumChunks(lines) == (Len(lines) + JOBS - 1) \div JOBS

Chunk(lines, k) == SubSeq(lines, (k - 1) * JOBS + 1, Min(k * JOBS, Len(lines)))

RECURSIVE ConcatChunks(_, _, _)
\* the outputs of the workers of the chunks named by ks, one after the other
ConcatChunks(stage, lines, ks) ==
    IF ks = <<>> THEN <<>>
    ELSE Worker(stage, Chunk(lines, Head(ks))) \o ConcatChunks(stage, lines, Tail(ks))

\* mutant: without -k, each worker's output is written when it finishes
parallel_output_Unordered(stage, lines, order) == ConcatChunks(stage, lines, order)

\* -k: the output of a worker is held back until every earlier chunk's
\* output has been written
parallel_output(stage, lines, order) ==
    LET done == { order[i] : i \in 1..Len(order) }
        ready == { m \in 0..NumChunks(lines) : 1..m \subseteq done }
        m == CHOOSE x \in ready : \A y \in ready : y <= x
    IN ConcatChunks(stage, lines, [k \in 1..m |-> k])

ShardInit ==
    /\ shStage \in {"transcribe", "recognize"}
    /\ shLines \in { [i \in 1..n |-> i] : n \in 0..MaxLines }
    /\ shOrder = <<>>
    /\ shOut = <<>>
    /\ SchedIdle /\ DiscIdle /\ SumIdle /\ BinIdle /\ ReportIdle

\* the worker of chunk k exits
FinishJob(k) ==
    /\ k \in 1..NumChunks(shLines)
    /\ \A i \in 1..Len(shOrder) : shOrder[i] # k
    /\ shOrder' = Append(shOrder, k)
    /\ shOut' = parallel_output(shStage, shLines, shOrder')
    /\ UNCHANGED <<shStage, shLines>>
    /\ UNCHANGED <<schedVars, discVars, sumVars, binVars, reportVars>>

ShardNext == \E k \in 1..NumChunks(shLines) : FinishJob(k)

SpecShard == ShardInit /\ [][ShardNext]_vars

\* C6: once every worker has finished, the target holds what a single
\* worker produces for the whole list, whatever the order of completion
C6_ShardedEqualsSingleWorker ==
    Len(shOrder) = NumChunks(shLines) => shOut = Worker(shStage, shLines)

C6_Witness ==
    /\ NumChunks(shLines) >= 3
    /\ Len(shOrder) = NumChunks(shLines)
    /\ shOrder[1] = 3
    /\ shOrder[2] = 1

----------------------------------------------------------------------------
(* maybe_user_bin *)

RECURSIVE Join(_)
\* " ".join(command)
Join(command) ==
    IF command = <<>> THEN ""
    ELSE IF Len(command) = 1 THEN command[1]
    ELSE command[1] \o " " \o Join(Tail(command))

RECURSIVE SplitArgs(_, _, _, _)
\* the loop over args: before_args and after_args, split based on --
SplitArgs(args, before, before_args, after_args) ==
    IF args = <<>> THEN <<before_args, after_args>>
    ELSE LET arg == Head(args)
         IN IF arg = "--" THEN SplitArgs(Tail(args), FALSE, before_args, after_args)
            ELSE IF before
                 THEN SplitArgs(Tail(args), before, Append(before_args, arg), after_args)
                 ELSE SplitArgs(Tail(args), before, before_args, Append(after_args, arg))

\* mutant: the command name is placed right after voice2json
maybe_user_bin_NameFirst(is_file, in_dir, command_name, args) ==
    IF is_file
    THEN Join(<<in_dir \o "/bin/" \o command_name>> \o args)
    ELSE LET split == SplitArgs(args, TRUE, <<>>, <<>>)
         IN Join(<<"voice2json", command_name>> \o split[1] \o split[2])

\* is_file: whether in_dir / "bin" / command_name is a file
maybe_user_bin(is_file, in_dir, command_name, args) ==
    IF is_file
    THEN Join(<<in_dir \o "/bin/" \o command_name>> \o args)
    ELSE LET split == SplitArgs(args, TRUE, <<>>, <<>>)
         IN Join(<<"voice2json">> \o split[1] \o <<command_name>> \o split[2])

InProfileDir == "datasets/d1/profiles/a"

ArgValues == {"--profile", "profiles/d1/a", "--", "--stdin-files"}

ArgLists == UNION { [1..n -> ArgValues] : n \in 0..MaxArgs }

BinInit ==
    /\ binExists \in BOOLEAN
    /\ binName \in {"transcribe-wav", "train-profile"}
    /\ binArgs \in ArgLists
    /\ binCommand = ""
    /\ binDone = FALSE
    /\ SchedIdle /\ DiscIdle /\ ShardIdle /\ SumIdle /\ ReportIdle

CallMaybeUserBin ==
    /\ ~binDone
    /\ binCommand' = maybe_user_bin(binExists, InProfileDir, binName, binArgs)
    /\ binDone' = TRUE
    /\ UNCHANGED <<binExists, binName, binArgs>>
    /\ UNCHANGED <<schedVars, discVars, shardVars, sumVars, reportVars>>

BinNext == CallMaybeUserBin

SpecBin == BinInit /\ [][BinNext]_vars

\* the arguments before the first --, or all of them when there is none
ArgsBeforeSeparator(args) ==
    LET seps == { i \in 1..Len(args) : args[i] = "--" }
    IN IF seps = {} THEN args
       ELSE SubSeq(args, 1, (CHOOSE i \in seps : \A j \in seps : i <= j) - 1)

\* the arguments after the first --, no -- among them
ArgsAfterSeparator(args) ==
    LET seps == { i \in 1..Len(args) : args[i] = "--" }
    IN IF seps = {} THEN <<>>
       ELSE SelectSeq(SubSeq(args, (CHOOSE i \in seps : \A j \in seps : i <= j) + 1,
                             Len(args)),
                      LAMBDA a : a # "--")

\* C10: with an override file the command is its path followed by the
\* arguments as given; otherwise it is voice2json, the arguments before the
\* separator, the command name, the arguments after the separator, and no --
C10_CommandShape ==
    binDone =>
        IF binExists
        THEN binCommand = Join(<<InProfileDir \o "/bin/" \o binName>> \o binArgs)
        ELSE binCommand = Join(<<"voice2json">> \o ArgsBeforeSeparator(binArgs)
                                \o <<binName>> \o ArgsAfterSeparator(binArgs))

C10_Witness ==
    /\ binDone
    /\ ~binExists
    /\ binArgs = <<"--profile", "--", "--stdin-files">>
    /\ binCommand = "voice2json --profile transcribe-wav --stdin-files"

----------------------------------------------------------------------------
(* task_summary.make_summary *)

\* lines of train-profile.txt, as their whitespace-delimited tokens
LineDone     == <<"Training", "completed", "in", "12.345", "seconds">>
LineDebug    == <<"DEBUG", "loading", "profile">>
LineUpper    == <<"TRAINING", "COMPLETED", "IN", "2.675", "seconds">>
LineInside   == <<"training", "completed", "inside", "0.125", "s">>
LineShort    == <<"Training", "completed", "in">>
LineNoNumber == <<"Training", "completed", "in", "n/a", "seconds">>

Logs == { <<>>, <<LineDebug>>, <<LineDone>>, <<LineDebug, LineDone>>,
          <<LineDone, LineUpper>>, <<LineInside>>, <<LineShort>>, <<LineNoNumber>> }

\* str.lower on a token
Lower(tok) ==
    CASE tok = "Training"  -> "training"
      [] tok = "TRAINING"  -> "training"
      [] tok = "COMPLETED" -> "completed"
      [] tok = "IN"        -> "in"
      [] tok = "DEBUG"     -> "debug"
      [] OTHER             -> tok

\* line.strip().lower().startswith("training completed in")
StartsWithPrefix(line) ==
    /\ Len(line) >= 3
    /\ Lower(line[1]) = "training"
    /\ Lower(line[2]) = "completed"
    /\ Lower(line[3]) \in {"in", "inside"}

\* float(token): the decimal value in thousandths, and the sign of the
\* error of its binary representation; not a number: ValueError
IsFloat(tok) == tok \in {"12.345", "2.675", "0.125"}

Float(tok) ==
    CASE tok = "12.345" -> [milli |-> 12345, err |-> 1]
      [] tok = "2.675"  -> [milli |-> 2675, err |-> -1]
      [] tok = "0.125"  -> [milli |-> 125, err |-> 0]

\* c hundredths written with two decimals
Decimal2(c) ==
    ToString(c \div 100) \o "." \o ToString((c % 100) \div 10) \o ToString(c % 10)

\* mutant: the value is cut after two decimals instead of rounded
Format2_Truncate(x) == Decimal2(x.milli \div 10)

\* "{0:.02f}".format(x): the binary value correctly rounded, ties to even
Format2(x) ==
    LET h == x.milli \div 10
        r == x.milli % 10
        up == r > 5 \/ (r = 5 /\ (x.err > 0 \/ (x.err = 0 /\ h % 2 = 1)))
    IN Decimal2(IF up THEN h + 1 ELSE h)

RECURSIVE TrainingTime(_, _)
\* the loop over the lines of the training log; [error, value]
TrainingTime(log, training_time) ==
    IF log = <<>> THEN [error |-> "", value |-> training_time]
    ELSE LET line == Head(log)
         IN IF StartsWithPrefix(line)
            THEN IF Len(line) < 4 THEN [error |-> "IndexError", value |-> ""]
                 ELSE IF ~IsFloat(Lower(line[4]))
                      THEN [error |-> "ValueError", value |-> ""]
                      ELSE TrainingTime(Tail(log), Format2(Float(Lower(line[4]))))
            ELSE TrainingTime(Tail(log), training_time)

RECURSIVE Sum(_)
Sum(xs) == IF xs = <<>> THEN 0 ELSE Head(xs) + Sum(Tail(xs))

\* the body of the loop over _PROFILES: the exception it raises, if any, and
\* the row it writes; the average is kept as <<sum, len>> for sum / len
\* (the fields copied from the report and the sentence count are left out)
ProfileResult(p) ==
    IF p.report = "missing" THEN [error |-> "FileNotFoundError", rows |-> <<>>]
    ELSE IF p.report = "malformed" THEN [error |-> "JSONDecodeError", rows |-> <<>>]
    ELSE LET tt == TrainingTime(p.log, "")
         IN IF tt.error # "" THEN [error |-> tt.error, rows |-> <<>>]
            ELSE IF Len(p.actual) = 0 THEN [error |-> "ZeroDivisionError", rows |-> <<>>]
            ELSE [error |-> "",
                  rows |-> << [dataset |-> p.dataset,
                               profile |-> p.profile,
                               training_seconds |-> tt.value,
                               average_recognize_seconds |->
                                   <<Sum(p.actual), Len(p.actual)>>] >>]

\* what make_summary finds on disk for one profile; recognize_seconds of the
\* examples of report["actual"], in milliseconds
Reports ==
    { [report |-> "missing", actual |-> <<>>],
      [report |-> "malformed", actual |-> <<>>],
      [report |-> "ok", actual |-> <<>>],
      [report |-> "ok", actual |-> <<100>>],
      [report |-> "ok", actual |-> <<100, 300, 200>>] }

SummaryNames == << <<"d1", "a">>, <<"d1", "b">>, <<"d2", "c">> >>

SummaryInput(i, r, l) ==
    [dataset |-> SummaryNames[((i - 1) % 3) + 1][1],
     profile |-> SummaryNames[((i - 1) % 3) + 1][2],
     report |-> r.report, actual |-> r.actual, log |-> l]

SummaryInputs(n) ==
    { [i \in 1..n |-> SummaryInput(i, rs[i], ls[i])] :
        rs \in [1..n -> Reports], ls \in [1..n -> Logs] }

SummaryInit ==
    /\ \E n \in 1..MaxSummaryProfiles : smProfiles \in SummaryInputs(n)
    /\ smI = 1
    /\ smRows = <<>>
    /\ smState = "start"
    /\ smError = ""
    /\ SchedIdle /\ DiscIdle /\ ShardIdle /\ BinIdle /\ ReportIdle

\* open(targets[0], "w") and writer.writeheader()
WriteHeader ==
    /\ smState = "start"
    /\ smState' = "loop"
    /\ smRows' = << [dataset |-> "dataset", profile |-> "profile",
                     training_seconds |-> "training_seconds",
                     average_recognize_seconds |-> <<>>] >>
    /\ UNCHANGED <<smProfiles, smI, smError>>
    /\ UNCHANGED <<schedVars, discVars, shardVars, binVars, reportVars>>

\* one iteration of the loop over _PROFILES
ProfileRow ==
    /\ smState = "loop"
    /\ smI <= Len(smProfiles)
    /\ LET res == ProfileResult(smProfiles[smI])
       IN IF res.error # ""
          THEN /\ smState' = "raised"
               /\ smError' = res.error
               /\ UNCHANGED <<smI, smRows>>
          ELSE /\ smRows' = smRows \o res.rows
               /\ smI' = smI + 1
               /\ UNCHANGED <<smState, smError>>
    /\ UNCHANGED smProfiles
    /\ UNCHANGED <<schedVars, discVars, shardVars, binVars, reportVars>>

\* the loop is over and the file is closed
SummaryDone ==
    /\ smState = "loop"
    /\ smI > Len(smProfiles)
    /\ smState' = "done"
    /\ UNCHANGED <<smProfiles, smI, smRows, smError>>
    /\ UNCHANGED <<schedVars, discVars, shardVars, binVars, reportVars>>

SummaryNext == WriteHeader \/ ProfileRow \/ SummaryDone

SpecSummary == SummaryInit /\ [][SummaryNext]_vars

SummaryOver == smState \in {"done", "raised"}

Readable(i) == smProfiles[i].report = "ok"

LogParses(i) == TrainingTime(smProfiles[i].log, "").error = ""

HasRow(i) ==
    \E k \in 2..Len(smRows) :
        /\ smRows[k].dataset = smProfiles[i].dataset
        /\ smRows[k].profile = smProfiles[i].profile

\* C7: when some report.json is missing or unreadable and nothing else is
\* wrong, make_summary does not abort and writes the row of every profile
\* whose report is readable
C7_UnreadableReportLosesOnlyItsRow ==
    (/\ SummaryOver
     /\ \E j \in 1..Len(smProfiles) : ~Readable(j)
     /\ \A i \in 1..Len(smProfiles) :
           /\ LogParses(i)
           /\ Readable(i) => smProfiles[i].actual # <<>>)
        => /\ smState = "done"
           /\ \A i \in 1..Len(smProfiles) : Readable(i) => HasRow(i)

\* C8: when every report is readable and every log parses, a profile with
\* an empty actual map gets a row with an undefined average, and
\* make_summary does not raise
C8_EmptyActualGivesUndefinedAverage ==
    (/\ SummaryOver
     /\ \A i \in 1..Len(smProfiles) : Readable(i) /\ LogParses(i)
     /\ \E j \in 1..Len(smProfiles) : smProfiles[j].actual = <<>>)
        => /\ smState = "done"
           /\ \A i \in 1..Len(smProfiles) :
                 \E k \in 2..Len(smRows) :
                    /\ smRows[k].dataset = smProfiles[i].dataset
                    /\ smRows[k].profile = smProfiles[i].profile
                    /\ smProfiles[i].actual = <<>>
                          => smRows[k].average_recognize_seconds = <<>>

\* the lines of a log that begin with the prefix
MatchingLines(log) == { j \in 1..Len(log) : StartsWithPrefix(log[j]) }

\* every line that begins with the prefix has a number as its fourth token
TimingLinesNumeric(log) ==
    \A j \in MatchingLines(log) : Len(log[j]) >= 4 /\ IsFloat(log[j][4])

\* the two-decimal values nearest to m thousandths, in hundredths
Nearest2(m) ==
    { c \in {m \div 10, (m \div 10) + 1} :
        \A d \in {m \div 10, (m \div 10) + 1} :
            (IF 10 * c >= m THEN 10 * c - m ELSE m - 10 * c)
                <= (IF 10 * d >= m THEN 10 * d - m ELSE m - 10 * d) }

\* what the claim gives for a log: empty without a timing line, else the
\* fourth token of the last timing line rounded to two decimals
RoundedTimings(log) ==
    IF MatchingLines(log) = {} THEN {""}
    ELSE LET j == CHOOSE x \in MatchingLines(log) : \A y \in MatchingLines(log) : y <= x
             tok == log[j][4]
         IN IF tok = "12.345" THEN {"12.35"}
            ELSE { Decimal2(c) : c \in Nearest2(Float(tok).milli) }

\* C11: when the reports are usable and every timing line carries a number,
\* make_summary does not abort, and the training_seconds of each row is the
\* fourth token of the profile's timing line rounded to two decimals
\* (12.345 gives 12.35), or empty when the log has no timing line
C11_TrainingSecondsParsed ==
    (/\ SummaryOver
     /\ \A i \in 1..Len(smProfiles) :
           /\ Readable(i)
           /\ smProfiles[i].actual # <<>>
           /\ TimingLinesNumeric(smProfiles[i].log))
        => /\ smState = "done"
           /\ Len(smRows) = Len(smProfiles) + 1
           /\ \A i \in 1..Len(smProfiles) :
                 smRows[i + 1].training_seconds \in RoundedTimings(smProfiles[i].log)

C11_Witness ==
    /\ smState = "done"
    /\ Len(smProfiles) = 2
    /\ smProfiles[1].log = <<LineDebug, LineDone>>
    /\ smProfiles[2].log = <<LineDebug>>
    /\ smRows[2].training_seconds = "12.35"
    /\ smRows[3].training_seconds = ""

----------------------------------------------------------------------------
(* scripts/report-to-html.py: the order of the rows of the table *)

\* the values of report["actual"]: the recognized intent with the fields
\* test-examples adds to it
Examples ==
    { [intent |-> [name |-> "GetTime"],
       expected_intent_name |-> e,
       wrong_entities |-> w,
       missing_entities |-> m] :
        e \in {"GetTime", "SetTimer"},
        w \in { <<>>, <<"hour">> },
        m \in { <<>>, <<"minute">>, <<"minute", "second">> } }

\* len(["missing_entities"]) is the length of a one-element list literal
sort_score(intent) ==
    IF intent.intent.name # intent.expected_intent_name THEN 100
    ELSE Len(intent.wrong_entities) + Len(<<"missing_entities">>)

\* x goes behind the items whose score is not smaller (the sort is stable)
InsertDescending(items, acc, x) ==
    LET k == Cardinality({ i \in 1..Len(acc) :
                              sort_score(items[acc[i]]) >= sort_score(items[x]) })
    IN SubSeq(acc, 1, k) \o <<x>> \o SubSeq(acc, k + 1, Len(acc))

RECURSIVE SortedDescending(_, _, _)
\* sorted(actual.items(), key=lambda kv: sort_score(kv[1]), reverse=True),
\* as the positions of the items
SortedDescending(items, acc, x) ==
    IF x > Len(items) THEN acc
    ELSE SortedDescending(items, InsertDescending(items, acc, x), x + 1)

ReportInit ==
    /\ rpActual \in UNION { [1..n -> Examples] : n \in 0..MaxExamples }
    /\ rpRows = <<>>
    /\ rpDone = FALSE
    /\ SchedIdle /\ DiscIdle /\ ShardIdle /\ SumIdle /\ BinIdle

\* the loop that writes the rows of the table
WriteTable ==
    /\ ~rpDone
    /\ rpRows' = SortedDescending(rpActual, <<>>, 1)
    /\ rpDone' = TRUE
    /\ UNCHANGED rpActual
    /\ UNCHANGED <<schedVars, discVars, shardVars, sumVars, binVars>>

ReportNext == WriteTable

SpecReport == ReportInit /\ [][ReportNext]_vars

\* the score the claim gives an example whose intent name is as expected
TrueScore(intent) == Len(intent.wrong_entities) + Len(intent.missing_entities)

NameMatches(intent) == intent.intent.name = intent.expected_intent_name

\* C12: an example whose intent name is as expected is ranked by the number
\* of its wrong entities plus the number of its missing entities, and the
\* rows of the table are in descending order of that score
C12_RankedByTrueMissingCount ==
    rpDone =>
        /\ \A i \in 1..Len(rpActual) :
              NameMatches(rpActual[i]) => sort_score(rpActual[i]) = TrueScore(rpActual[i])
        /\ \A a, b \in 1..Len(rpRows) :
              (/\ a < b
               /\ NameMatches(rpActual[rpRows[a]])
               /\ NameMatches(rpActual[rpRows[b]]))
                  => TrueScore(rpActual[rpRows[a]]) >= TrueScore(rpActual[rpRows[b]])

\* the rows are every example once, in descending order of sort_score
RowsDescendBySortScore ==
    rpDone =>
        /\ Len(rpRows) = Len(rpActual)
        /\ { rpRows[a] : a \in 1..Len(rpRows) } = 1..Len(rpActual)
        /\ \A a, b \in 1..Len(rpRows) :
              a < b => sort_score(rpActual[rpRows[a]]) >= sort_score(rpActual[rpRows[b]])

====
